---- MODULE Spec2Model ----
(***************************************************************************)
(* DynamoDbAdapter (src/src/index.js): the adapter between the generic     *)
(* database service and the dynamodb model object.                         *)
(*                                                                         *)
(* The adapter's own state is this.opts, this.model, this.hashKey,         *)
(* this.rangeKey, this.indexes and the client it hands to the model at     *)
(* connect; the process-wide AWS.config object is shared by all adapters.  *)
(* The table behind the model is part of the state because every data      *)
(* operation is one call on the model that reads or writes it.             *)
(***************************************************************************)
EXTENDS Integers, Sequences, FiniteSets, TLC

VARIABLES
    awsConfig,    \* the process-wide AWS.config (region, endpoint)
    adapter,      \* per adapter instance: the fields of `this`
    tableExists,  \* per adapter: does the table of its model exist
    store,        \* the table of adapter "A": key -> item or NoItem
    hist,         \* per key: the writes since the last remove (history)
    last          \* the most recently completed call and its outcome

vars == <<awsConfig, adapter, tableExists, store, hist, last>>

----------------------------------------------------------------------------
(* Bounds and value sets *)

MaxLimit == 2            \* filters carry limit 0..MaxLimit
MaxBatch == 2            \* insertMany / findByIds take at most this many

Adapters == {"A", "B"}
DataAdapters == {"A"}    \* the instance whose table is modelled
KeyOrder == <<"k1", "k2">>   \* the order in which a scan evaluates the keys
Keys == {KeyOrder[i] : i \in 1..Len(KeyOrder)}
Status == {"open", "closed"}

Undefined == "undefined"
Item == [id : Keys, status : Status]
NoItem == [id |-> "-", status |-> "-"]     \* null / undefined result

\* opts.aws of each instance: two different connection settings
AwsOf == [A |-> [region |-> "us-east-1", endpoint |-> "http://a:8000"],
          B |-> [region |-> "eu-west-1", endpoint |-> "http://b:8000"]]
NoAws == [region |-> "-", endpoint |-> "-"]
DefaultConfig == [region |-> "default", endpoint |-> "default"]

Opts(aws, sct) ==
    [aws |-> aws, shouldCreateTable |-> sct,
     hashKey |-> "id", rangeKey |-> Undefined, indexes |-> "byStatus"]

NoAdapter ==
    [made |-> FALSE, opts |-> Opts(NoAws, FALSE), service |-> FALSE,
     model |-> FALSE,
     dynamodb |-> NoAws, hashKey |-> Undefined, rangeKey |-> Undefined,
     indexes |-> Undefined, pc |-> "idle"]

ResourceInUse == "ResourceInUseException"
OtherErrors == {"AccessDeniedException", "NetworkingError"}
NotFound == "ResourceNotFoundException"

\* an ordered mapping: a sequence of key/value pairs with distinct keys
Pair(k, v) == [key |-> k, value |-> v]
IdPairs == {Pair("id", KeyOrder[1])}
StatusPairs == {Pair("status", "open")}
Queries ==
    {<<>>} \cup {<<p>> : p \in IdPairs \cup StatusPairs}
           \cup {<<p, q>> : p \in IdPairs, q \in StatusPairs}
           \cup {<<q, p>> : p \in IdPairs, q \in StatusPairs}

NoFilter == [defined |-> FALSE, hasLimit |-> FALSE, limit |-> 0, query |-> <<>>]
Filters ==
    {NoFilter}
    \cup {[defined |-> TRUE, hasLimit |-> FALSE, limit |-> 0, query |-> q] :
            q \in Queries}
    \cup {[defined |-> TRUE, hasLimit |-> TRUE, limit |-> n, query |-> q] :
            n \in 0..MaxLimit, q \in Queries}

\* count documents the props search, searchFields and query
CountFilters == {f \in Filters : ~f.hasLimit}

NoCursor == [limit |-> 0, conds |-> <<>>, loadAll |-> FALSE]

\* the record of a call: every field has a neutral value
NoCall ==
    [op |-> "none", who |-> "-", outcome |-> "-", reqs |-> 0,
     modelSet |-> FALSE, key |-> "-", item |-> NoItem, prior |-> NoItem,
     items |-> <<>>,
     num |-> 0, hasLimit |-> FALSE, limit |-> 0, nmatch |-> 0,
     query |-> <<>>, cursor |-> NoCursor, resp |-> "-", sct |-> FALSE]

NoHist == [ins |-> {}, lastIns |-> NoItem, rmIns |-> FALSE, rmWr |-> FALSE]

----------------------------------------------------------------------------
(* Lifecycle: constructor, init, connect, disconnect *)

\* AWS.config.update(options): the recognised keys of options overwrite the
\* configuration, every other key of options is left out.
ConfigUpdate(cfg, options) ==
    [k \in DOMAIN cfg |-> IF k \in DOMAIN options THEN options[k] ELSE cfg[k]]

\* new DynamoDbAdapter(opts): throws when opts.aws is missing, and then no
\* instance exists.
constructor(a, o) ==
    /\ ~adapter[a].made
    /\ IF o.aws = NoAws
       THEN /\ last' = [NoCall EXCEPT !.op = "constructor", !.who = a,
                                      !.outcome = "Error"]
            /\ UNCHANGED adapter
       ELSE /\ adapter' = [adapter EXCEPT ![a] =
                              [NoAdapter EXCEPT !.made = TRUE, !.opts = o]]
            /\ last' = [NoCall EXCEPT !.op = "constructor", !.who = a,
                                      !.outcome = "ok"]
    /\ UNCHANGED <<awsConfig, tableExists, store, hist>>

\* this.model after init(broker, service): set only when the schema has one
initModelAlways(old, hasModel) == TRUE   \* variant: a model is always set
initModel(old, hasModel) == IF hasModel THEN TRUE ELSE old

\* The hosting service calls init once, when it is created.
init(a, hasModel) ==
    /\ adapter[a].made
    /\ ~adapter[a].service
    /\ awsConfig' = ConfigUpdate(awsConfig, adapter[a].opts.aws)
    /\ adapter' = [adapter EXCEPT ![a].service = TRUE,
                                  ![a].model = initModel(@, hasModel)]
    /\ last' = [NoCall EXCEPT !.op = "init", !.who = a,
                   !.modelSet = hasModel,
                   !.outcome = IF hasModel THEN "ok" ELSE "Error"]
    /\ UNCHANGED <<tableExists, store, hist>>

\* the catch handler of createTable in connect
createTableCatchAll(err) == "ok"   \* variant: every error is swallowed
createTableCatch(err) == IF err = ResourceInUse THEN "ok" ELSE err

\* variant of connect: with the describeTable lookup
connectRequestsDescribe(sct) == (IF sct THEN 1 ELSE 0) + 1
\* the requests connect issues: createTable when asked to, and nothing else
\* (the describeTable lookup is commented out)
connectRequests(sct) == IF sct THEN 1 ELSE 0

\* the tail of connect: the key names are taken from the options
connectTail(ad) ==
    [ad EXCEPT !.hashKey = ad.opts.hashKey, !.rangeKey = ad.opts.rangeKey,
               !.indexes = ad.opts.indexes, !.pc = "idle"]

\* connect up to its await: update the shared configuration, create the
\* client from it, hand it to the model, issue createTable when asked to.
connect(a) ==
    /\ adapter[a].made
    /\ adapter[a].pc = "idle"
    /\ awsConfig' = ConfigUpdate(awsConfig, adapter[a].opts)
    /\ LET dynamodb == awsConfig'
           call == [NoCall EXCEPT !.op = "connect", !.who = a,
                       !.modelSet = adapter[a].model,
                       !.sct = adapter[a].opts.shouldCreateTable]
       IN  IF ~adapter[a].model
           THEN /\ last' = [call EXCEPT !.outcome = "TypeError"]
                /\ UNCHANGED adapter
           ELSE IF adapter[a].opts.shouldCreateTable
           THEN /\ adapter' = [adapter EXCEPT ![a].dynamodb = dynamodb,
                                              ![a].pc = "createTable"]
                /\ UNCHANGED last
           ELSE /\ adapter' = [adapter EXCEPT ![a] =
                       connectTail([@ EXCEPT !.dynamodb = dynamodb])]
                /\ last' = [call EXCEPT !.outcome = "ok",
                                        !.reqs = connectRequests(FALSE)]
    /\ UNCHANGED <<tableExists, store, hist>>

\* what the store can answer to a createTable request
CreateTableResponses(a) ==
    (IF tableExists[a] THEN {ResourceInUse} ELSE {"ok"}) \cup OtherErrors

\* connect after its await: the createTable request has been answered
connectResume(a, resp) ==
    /\ adapter[a].pc = "createTable"
    /\ resp \in CreateTableResponses(a)
    /\ tableExists' = [tableExists EXCEPT ![a] = @ \/ resp = "ok"]
    /\ LET out == IF resp = "ok" THEN "ok" ELSE createTableCatch(resp)
           call == [NoCall EXCEPT !.op = "connect", !.who = a,
                       !.modelSet = TRUE, !.sct = TRUE,
                       !.reqs = connectRequests(TRUE),
                       !.resp = resp, !.outcome = out]
       IN  /\ last' = call
           /\ adapter' = [adapter EXCEPT ![a] =
                            IF out = "ok" THEN connectTail(@)
                            ELSE [@ EXCEPT !.pc = "idle"]]
    /\ UNCHANGED <<awsConfig, store, hist>>

disconnect(a) ==
    /\ adapter[a].made
    /\ last' = [NoCall EXCEPT !.op = "disconnect", !.who = a,
                   !.modelSet = adapter[a].model, !.outcome = "ok"]
    /\ UNCHANGED <<awsConfig, adapter, tableExists, store, hist>>


----------------------------------------------------------------------------
(* The table behind the model, as the model's calls read and write it *)

\* the items of the table in the order a scan evaluates them
RECURSIVE TableFrom(_, _)
TableFrom(st, i) ==
    IF i > Len(KeyOrder) THEN <<>>
    ELSE (IF st[KeyOrder[i]] = NoItem THEN <<>> ELSE <<st[KeyOrder[i]]>>)
         \o TableFrom(st, i + 1)
TableSeq(st) == TableFrom(st, 1)

\* model.get(id)
Get(st, id) == st[id]
\* model.create(entity): a put, which overwrites an item of the same key
Put(st, e) == [st EXCEPT ![e.id] = e]
\* model.update(data): sets the attributes of data on the item of data's
\* key, creating the item when there is none
UpdateItem(st, data) == [st EXCEPT ![data.id] = data]
\* model.destroy(id, options): the item is deleted, and its old attributes
\* are the result when options ask for them
Delete(st, id) == [st EXCEPT ![id] = NoItem]
Deleted(st, id, options) ==
    IF options.ReturnValues = "ALL_OLD" THEN st[id] ELSE NoItem

\* scan.where(key).equals(value), for every condition of the request
Matches(item, conds) ==
    \A i \in 1..Len(conds) : item[conds[i].attr] = conds[i].value

Min(x, y) == IF x < y THEN x ELSE y

\* scan.exec(): a request with a limit is answered page by page, each page
\* evaluating at most `limit` items and keeping those that match; loadAll
\* follows the pages to the end of the table, without it the first page is
\* the answer.
RECURSIVE ScanPages(_, _, _)
ScanPages(req, all, from) ==
    LET size == IF req.limit > 0 THEN req.limit ELSE Len(all)
        upto == Min(from + size - 1, Len(all))
        evaluated == SubSeq(all, from, upto)
        Test(x) == Matches(x, req.conds)
        more == req.limit > 0 /\ Len(evaluated) = size
    IN  SelectSeq(evaluated, Test)
        \o (IF req.loadAll /\ more THEN ScanPages(req, all, from + size)
            ELSE <<>>)
exec(req, st) == ScanPages(req, TableSeq(st), 1)

----------------------------------------------------------------------------
(* The adapter's operations *)

\* variant of createCursor: every where() replaces the condition before it
createCursorLastOnly(params) ==
    IF ~params.defined
    THEN [limit |-> 0, conds |-> <<>>, loadAll |-> TRUE]
    ELSE [limit |-> IF params.hasLimit /\ params.limit > 0
                    THEN params.limit ELSE 0,
          conds |-> IF params.query = <<>> THEN <<>>
                    ELSE <<[attr |-> params.query[Len(params.query)].key,
                            value |-> params.query[Len(params.query)].value]>>,
          loadAll |-> TRUE]
\* createCursor(params): the scan request built from a filter
createCursor(params) ==
    IF ~params.defined
    THEN [limit |-> 0, conds |-> <<>>, loadAll |-> TRUE]
    ELSE [limit |-> IF params.hasLimit /\ params.limit > 0
                    THEN params.limit ELSE 0,
          conds |-> [i \in 1..Len(params.query) |->
                        [attr |-> params.query[i].key,
                         value |-> params.query[i].value]],
          loadAll |-> TRUE]

\* find(filters): the Items of the executed cursor
findItems(filters, st) == exec(createCursor(filters), st)

\* { ...filters, ...{ limit: 1 } }
withLimitOne(filters) ==
    [defined |-> TRUE, hasLimit |-> TRUE, limit |-> 1, query |-> filters.query]

\* findOne(filters): item.length === 1 ? item[0] : null
findOneItem(filters, st) ==
    LET item == findItems(withLimitOne(filters), st)
    IN  IF Len(item) = 1 THEN item[1] ELSE NoItem

\* variant of count: the number of records that match the query
countMatching(filters, st) ==
    LET Test(x) == \A i \in 1..Len(filters.query) :
                      x[filters.query[i].key] = filters.query[i].value
    IN  Len(SelectSeq(TableSeq(st), Test))
\* count(): the constant the method returns
countResult(filters, st) == 0

\* variant of insert: the adapter assigns the id itself
insertArgFresh(entity) == [entity EXCEPT !.id = KeyOrder[1]]
\* insert(entity): what is handed to model.create
insertArg(entity) == entity

\* updateById(id, update): { ...update.$set, [this.hashKey]: id }
updateData(ad, id, set) ==
    IF ad.hashKey = "id" THEN [id |-> id, status |-> set.status]
    ELSE [id |-> Undefined, status |-> set.status]

\* variant of removeById: the old value is not asked for
removeOptionsNone == [ReturnValues |-> "NONE"]
\* removeById(id): the options handed to model.destroy
removeOptions == [ReturnValues |-> "ALL_OLD"]

\* the records that match a filter's query, whatever its limit
Matching(filters, st) ==
    LET Test(x) == Matches(x, createCursor(filters).conds)
    IN  SelectSeq(TableSeq(st), Test)

Call(a, op) ==
    [NoCall EXCEPT !.op = op, !.who = a, !.modelSet = adapter[a].model]

\* an operation is called on an instance that exists; the hosting service
\* calls data operations once connect has resolved, and a caller may still
\* call them on an instance whose init threw.
Callable(a) ==
    /\ adapter[a].made
    /\ ~adapter[a].model \/ adapter[a].hashKey # Undefined

\* this.model is undefined (TypeError before any request), or the request
\* is refused because the table does not exist
Failed(a, c) ==
    /\ ~adapter[a].model \/ ~tableExists[a]
    /\ last' = IF ~adapter[a].model
               THEN [c EXCEPT !.outcome = "TypeError"]
               ELSE [c EXCEPT !.outcome = NotFound, !.reqs = 1]
    /\ UNCHANGED <<awsConfig, adapter, tableExists, store, hist>>

Ready(a) == adapter[a].model /\ tableExists[a]

find(a, filters) ==
    /\ Callable(a)
    /\ \/ Failed(a, Call(a, "find"))
       \/ /\ Ready(a)
          /\ last' = [Call(a, "find") EXCEPT
                         !.outcome = "ok", !.reqs = 1,
                         !.items = findItems(filters, store),
                         !.hasLimit = filters.hasLimit /\ filters.limit > 0,
                         !.limit = filters.limit,
                         !.nmatch = Len(Matching(filters, store))]
          /\ UNCHANGED <<awsConfig, adapter, tableExists, store, hist>>

findOne(a, filters) ==
    /\ Callable(a)
    /\ \/ Failed(a, Call(a, "findOne"))
       \/ /\ Ready(a)
          /\ last' = [Call(a, "findOne") EXCEPT
                         !.outcome = "ok", !.reqs = 1,
                         !.item = findOneItem(filters, store),
                         !.hasLimit = filters.hasLimit /\ filters.limit > 0,
                         !.limit = filters.limit,
                         !.nmatch = Len(Matching(filters, store))]
          /\ UNCHANGED <<awsConfig, adapter, tableExists, store, hist>>

findById(a, id) ==
    /\ Callable(a)
    /\ \/ Failed(a, [Call(a, "findById") EXCEPT !.key = id])
       \/ /\ Ready(a)
          /\ last' = [Call(a, "findById") EXCEPT
                         !.outcome = "ok", !.reqs = 1, !.key = id,
                         !.item = Get(store, id)]
          /\ UNCHANGED <<awsConfig, adapter, tableExists, store, hist>>

\* findByIds(idList): scan().where(hashKey).in(idList).exec(), one page
findByIds(a, idList) ==
    /\ Callable(a)
    /\ \/ Failed(a, Call(a, "findByIds"))
       \/ /\ Ready(a)
          /\ LET Test(x) == x.id \in idList
             IN  last' = [Call(a, "findByIds") EXCEPT
                            !.outcome = "ok", !.reqs = 1,
                            !.items = SelectSeq(TableSeq(store), Test)]
          /\ UNCHANGED <<awsConfig, adapter, tableExists, store, hist>>

\* count never touches this.model
count(a, filters) ==
    /\ Callable(a)
    /\ last' = [Call(a, "count") EXCEPT
                   !.outcome = "ok", !.num = countResult(filters, store),
                   !.nmatch = Len(Matching(filters, store))]
    /\ UNCHANGED <<awsConfig, adapter, tableExists, store, hist>>

insert(a, entity) ==
    /\ Callable(a)
    /\ \/ Failed(a, [Call(a, "insert") EXCEPT !.key = entity.id])
       \/ /\ Ready(a)
          /\ LET e == insertArg(entity)
             IN  /\ store' = Put(store, e)
                 /\ last' = [Call(a, "insert") EXCEPT
                                !.outcome = "ok", !.reqs = 1,
                                !.key = entity.id, !.item = e]
          /\ hist' = [hist EXCEPT ![entity.id] =
                        [ins |-> @.ins \cup {entity}, lastIns |-> entity,
                         rmIns |-> FALSE, rmWr |-> FALSE]]
          /\ UNCHANGED <<awsConfig, adapter, tableExists>>

RECURSIVE PutAll(_, _)
PutAll(st, es) ==
    IF es = <<>> THEN st ELSE PutAll(Put(st, Head(es)), Tail(es))

\* batches of entities with pairwise different keys
Batches ==
    {es \in UNION {[1..n -> Item] : n \in 0..MaxBatch} :
        \A i, j \in 1..Len(es) : i # j => es[i].id # es[j].id}

insertMany(a, entities) ==
    /\ Callable(a)
    /\ \/ Failed(a, Call(a, "insertMany"))
       \/ /\ Ready(a)
          /\ store' = PutAll(store, entities)
          /\ last' = [Call(a, "insertMany") EXCEPT
                         !.outcome = "ok", !.reqs = 1, !.items = entities]
          /\ hist' = [k \in Keys |->
                        IF \E i \in 1..Len(entities) : entities[i].id = k
                        THEN [hist[k] EXCEPT !.lastIns = NoItem,
                                 !.rmIns = FALSE, !.rmWr = FALSE]
                        ELSE hist[k]]
          /\ UNCHANGED <<awsConfig, adapter, tableExists>>

updateById(a, id, update) ==
    /\ Callable(a)
    /\ \/ Failed(a, [Call(a, "updateById") EXCEPT !.key = id])
       \/ /\ Ready(a)
          /\ LET data == updateData(adapter[a], id, update.set)
             IN  /\ store' = UpdateItem(store, data)
                 /\ last' = [Call(a, "updateById") EXCEPT
                                !.outcome = "ok", !.reqs = 1, !.key = id,
                                !.item = data]
          /\ hist' = [hist EXCEPT ![id] =
                        [@ EXCEPT !.ins = {}, !.lastIns = NoItem,
                                  !.rmWr = FALSE]]
          /\ UNCHANGED <<awsConfig, adapter, tableExists>>

removeById(a, id) ==
    /\ Callable(a)
    /\ \/ Failed(a, [Call(a, "removeById") EXCEPT !.key = id])
       \/ /\ Ready(a)
          /\ store' = Delete(store, id)
          /\ last' = [Call(a, "removeById") EXCEPT
                         !.outcome = "ok", !.reqs = 1, !.key = id,
                         !.item = Deleted(store, id, removeOptions),
                         !.prior = store[id]]
          /\ hist' = [hist EXCEPT ![id] =
                        [ins |-> {}, lastIns |-> NoItem,
                         rmIns |-> @.rmIns \/ store[id] # NoItem,
                         rmWr |-> @.rmWr \/ store[id] # NoItem]]
          /\ UNCHANGED <<awsConfig, adapter, tableExists>>

\* clear(): model.destroy({}), a delete without a key. The store either
\* refuses it or the model takes it for "every item".
clear(a) ==
    /\ Callable(a)
    /\ \/ Failed(a, Call(a, "clear"))
       \/ /\ Ready(a)
          /\ last' = [Call(a, "clear") EXCEPT
                         !.outcome = "ValidationException", !.reqs = 1]
          /\ UNCHANGED <<awsConfig, adapter, tableExists, store, hist>>
       \/ /\ Ready(a)
          /\ store' = [k \in Keys |-> NoItem]
          /\ last' = [Call(a, "clear") EXCEPT !.outcome = "ok", !.reqs = 1]
          /\ hist' = [k \in Keys |->
                        [hist[k] EXCEPT !.ins = {}, !.lastIns = NoItem]]
          /\ UNCHANGED <<awsConfig, adapter, tableExists>>

\* a call of createCursor: the request is built and not executed
cursor(a, params) ==
    /\ Callable(a)
    /\ IF ~adapter[a].model
       THEN last' = [Call(a, "createCursor") EXCEPT !.outcome = "TypeError"]
       ELSE last' = [Call(a, "createCursor") EXCEPT
                        !.outcome = "ok", !.query = params.query,
                        !.hasLimit = params.hasLimit, !.limit = params.limit,
                        !.cursor = createCursor(params)]
    /\ UNCHANGED <<awsConfig, adapter, tableExists, store, hist>>

----------------------------------------------------------------------------
Init ==
    /\ awsConfig = DefaultConfig
    /\ adapter = [a \in Adapters |-> NoAdapter]
    /\ tableExists \in {t \in [Adapters -> BOOLEAN] :
                           \A a \in Adapters \ DataAdapters : ~t[a]}
    /\ store = [k \in Keys |-> NoItem]
    /\ hist = [k \in Keys |-> NoHist]
    /\ last = NoCall

InitTwo ==
    /\ awsConfig = DefaultConfig
    /\ adapter = [a \in Adapters |-> NoAdapter]
    /\ tableExists \in [Adapters -> BOOLEAN]
    /\ store = [k \in Keys |-> NoItem]
    /\ hist = [k \in Keys |-> NoHist]
    /\ last = NoCall

Lifecycle(a) ==
    \/ \E sct \in BOOLEAN, aws \in {NoAws, AwsOf[a]} : constructor(a, Opts(aws, sct))
    \/ \E hasModel \in BOOLEAN : init(a, hasModel)
    \/ connect(a)
    \/ \E resp \in {"ok", ResourceInUse} \cup OtherErrors : connectResume(a, resp)
    \/ disconnect(a)

Data(a) ==
    \/ \E f \in Filters : find(a, f)
    \/ \E f \in Filters : findOne(a, f)
    \/ \E id \in Keys : findById(a, id)
    \/ \E ids \in {s \in SUBSET Keys : Cardinality(s) <= MaxBatch} :
          findByIds(a, ids)
    \/ \E f \in CountFilters : count(a, f)
    \/ \E e \in Item : insert(a, e)
    \/ \E es \in Batches : insertMany(a, es)
    \/ \E id \in Keys, s \in Status : updateById(a, id, [set |-> [status |-> s]])
    \/ \E id \in Keys : removeById(a, id)
    \/ clear(a)
    \/ \E f \in Filters : cursor(a, f)

Next == \E a \in DataAdapters : Lifecycle(a) \/ Data(a)

Spec == Init /\ [][Next]_vars

NextTwo == \E a \in Adapters : Lifecycle(a)

SpecTwo == InitTwo /\ [][NextTwo]_vars

----------------------------------------------------------------------------
(* Properties *)

Done(op) == last.op = op /\ last.outcome = "ok"

\* C1 as stated: after insert(e) has completed, findById with e's key
\* resolves with e unless a removeById, clear or updateById on that key came
\* in between (hist[k].ins holds every entity inserted under k since the
\* last of those).
C1_InsertThenFindById ==
    Done("findById") => \A e \in hist[last.key].ins : last.item = e

\* C1 amended: after insert(e) has completed, findById with e's key resolves
\* with e when no removeById, clear, updateById, insert or insertMany on
\* that key came in between (hist[k].lastIns is the entity of insert(e) when
\* that insert is the most recent write of k).
C1_LastInsertThenFindById ==
    (Done("findById") /\ hist[last.key].lastIns # NoItem)
        => last.item = hist[last.key].lastIns

C1_Witness ==
    /\ Done("findById")
    /\ hist[last.key].lastIns # NoItem
    /\ last.item \in Item

\* removeById on an entity that is in the table resolves with the state the
\* entity had
RemoveReturnsPrior ==
    (Done("removeById") /\ last.prior # NoItem) => last.item = last.prior

\* C2 as stated: removeById of a previously inserted entity resolves with
\* its prior state, and a later findById of the key resolves with an absent
\* result when no insert of that key (by insert or insertMany) came in
\* between.
C2_RemoveThenAbsent ==
    /\ RemoveReturnsPrior
    /\ (Done("findById") /\ hist[last.key].rmIns) => last.item = NoItem

\* C2 amended: removeById of a previously inserted entity resolves with its
\* prior state, and a later findById of the key resolves with an absent
\* result when no insert, insertMany or updateById of that key came in
\* between.
C2_RemoveThenAbsentUnlessWritten ==
    /\ RemoveReturnsPrior
    /\ (Done("findById") /\ hist[last.key].rmWr) => last.item = NoItem

C2_Witness ==
    /\ Done("findById")
    /\ hist[last.key].rmWr
    /\ last.item = NoItem
    /\ \E k \in Keys : store[k] # NoItem

\* C3: find with a positive limit n resolves with at most n items.
C3_FindAtMostLimit ==
    (Done("find") /\ last.hasLimit) => Len(last.items) <= last.limit

\* C4: findOne resolves with one entity, and with null only when no record
\* matched the filter's query.
C4_FindOneNullOnlyWhenNoMatch ==
    Done("findOne") => (last.item = NoItem <=> last.nmatch = 0)

\* C5: connect with shouldCreateTable succeeds and records hashKey,
\* rangeKey and indexes when createTable fails with ResourceInUseException;
\* any other createTable error is the error connect fails with; connect
\* does not succeed on any other response than success or
\* ResourceInUseException.
C5_ConnectCreateTable ==
    (last.op = "connect" /\ last.sct /\ last.modelSet) =>
        /\ last.resp = ResourceInUse =>
              /\ last.outcome = "ok"
              /\ adapter[last.who].hashKey = adapter[last.who].opts.hashKey
              /\ adapter[last.who].rangeKey = adapter[last.who].opts.rangeKey
              /\ adapter[last.who].indexes = adapter[last.who].opts.indexes
              /\ adapter[last.who].hashKey # Undefined
        /\ last.resp \in OtherErrors => last.outcome = last.resp
        /\ last.outcome = "ok" => last.resp \in {"ok", ResourceInUse}

C5_Witness ==
    /\ last.op = "connect"
    /\ last.resp = ResourceInUse
    /\ last.outcome = "ok"

RequestOps ==
    {"connect", "find", "findOne", "findById", "findByIds", "count",
     "insert", "insertMany", "updateById", "removeById", "clear"}

CondSet(req) == {req.conds[i] : i \in 1..Len(req.conds)}
PairConds(q) == {[attr |-> q[i].key, value |-> q[i].value] : i \in 1..Len(q)}
\* the orderings of the pairs of an ordered mapping
Orderings(q) ==
    {p \in [1..Len(q) -> {q[i] : i \in 1..Len(q)}] :
        \A i \in 1..Len(q) : \E j \in 1..Len(q) : p[j] = q[i]}

\* C8: the request createCursor builds holds exactly one "attribute equals
\* value" condition per pair of the query, and the same pairs in any other
\* order give an equivalent request: the same conditions, limit and
\* loadAll, and the same items when executed.
C8_CursorConditions ==
    Done("createCursor") =>
        /\ Len(last.cursor.conds) = Len(last.query)
        /\ CondSet(last.cursor) = PairConds(last.query)
        /\ \A p \in Orderings(last.query) :
              LET other == createCursor([defined |-> TRUE,
                               hasLimit |-> last.hasLimit,
                               limit |-> last.limit, query |-> p])
              IN  /\ CondSet(other) = CondSet(last.cursor)
                  /\ other.limit = last.cursor.limit
                  /\ other.loadAll = last.cursor.loadAll
                  /\ exec(other, store) = exec(last.cursor, store)

C8_Witness ==
    /\ Done("createCursor")
    /\ Len(last.query) = 2
    /\ \E k \in Keys : store[k] # NoItem

C10_ClientHasOwnSettings ==
    \A a \in Adapters :
        adapter[a].dynamodb # NoAws => adapter[a].dynamodb = adapter[a].opts.aws
====
